---------------------------- MODULE Spec2Model ----------------------------
(***************************************************************************)
(* Streaming agent invocation and session persistence of the sales-copilot *)
(* UI: the retry loop of streamAgent, the line decoder of                  *)
(* streamAgentCoreRuntime, the per-turn handler onPromptSend of the chat   *)
(* page and the fire-and-forget calls it makes to the chat store.          *)
(*                                                                         *)
(* Text is a sequence of one-character strings.  The response bodies are   *)
(* drawn from the finite set Texts; every split of a body into chunks is   *)
(* explored.                                                               *)
(***************************************************************************)
EXTENDS Integers, Sequences, FiniteSets, TLC

VARIABLES
    \* ---- one call of streamAgent (agentInvocationService.ts) ----
    ipc,          \* position of the call: init, fetching, reading, waiting, returned, thrown
    retryCount,   \* streamAgent's retryCount
    requests,     \* outbound fetches issued so far, in order
    attempts,     \* how each finished attempt ended, in order
    error,        \* message of the error streamAgent threw ("" while none)
    accessToken,  \* localStorage 'access_token' ("" when absent)
    runtimeArn,   \* obj[agentId]: the endpoint configured for the agent ("" when none)
    body,         \* text of the 200 response being read
    pos,          \* number of characters of body the reader has handed out
    buffer,       \* streamAgentCoreRuntime's buffer
    yielded,      \* values the generator yielded in the current attempt
    delivered,    \* values handed to onChunk during the whole call
    fullResponse, \* closure variable of the chat page
    logData,      \* closure variable of the chat page
    \* ---- the chat page (Home.tsx) ----
    logResponse,  \* React state logResponse
    messages,     \* React state messages: the visible transcript
    sessionId,    \* React state sessionId ("" when none)
    lsSessionId,  \* localStorage 'sessionId' ("" when absent)
    urlSession,   \* the URL's session parameter ("" when absent)
    turns,        \* the calls of onPromptSend so far, each with its closure variables
    \* ---- the chat store and the calls on their way to it ----
    baseUrl,      \* VITE_API_URL ("" when the chat API is not configured)
    net,          \* createChatSession / addChatToSession calls not yet answered
    loads,        \* getChatDetails calls not yet answered
    navigations,  \* session switches, new chats and deletions so far
    storeFailures,\* calls to the store that have failed so far
    storeSessions,\* sessions the store holds
    storeLog,     \* the message log the store holds for each session
    \* ---- one call of generateSessionId (utils.ts) ----
    bytes,        \* the random bytes crypto.getRandomValues returned
    result,       \* the string generateSessionId returned (<<>> before the call)
    \* ---- calls of chatServices.ts awaited by a caller ----
    callResults,  \* how each awaited call ended, in order
    \* ---- the history list (App.tsx) ----
    deletedSessions \* sessions deleted with deleteSession so far

gvars == <<bytes, result, callResults>>

ivars == <<ipc, retryCount, requests, attempts, error, accessToken, runtimeArn,
           body, pos, buffer, yielded, delivered, fullResponse, logData, gvars>>

cvars == <<messages, sessionId, lsSessionId, urlSession, turns, baseUrl, net, loads,
           navigations, storeFailures, storeSessions, storeLog, deletedSessions,
           gvars>>

vars == <<ivars, logResponse, cvars>>

-----------------------------------------------------------------------------
(* Text helpers *)

\* s.substring(n) for 0-based n
Drop(s, n) == SubSeq(s, n + 1, Len(s))

Take(s, n) == SubSeq(s, 1, n)

\* s.startsWith(p)
StartsWith(s, p) == Len(s) >= Len(p) /\ Take(s, Len(p)) = p

\* s.indexOf(sub) > -1
Includes(s, sub) ==
    \E i \in 0..(Len(s) - Len(sub)) : SubSeq(s, i + 1, i + Len(sub)) = sub

RECURSIVE Concat(_)
Concat(ss) == IF ss = <<>> THEN <<>> ELSE Head(ss) \o Concat(Tail(ss))

NL == "\n"
QUOTE == "\""
BSLASH == "\\"

DataPrefix == <<"d", "a", "t", "a", ":", " ">>
LogMarker == <<"[", "L", "O", "G", "]">>

\* buffer.split('\n'): the pieces between newlines, always at least one piece
RECURSIVE SplitNL(_)
SplitNL(s) ==
    IF \A i \in 1..Len(s) : s[i] # NL
    THEN <<s>>
    ELSE LET k == CHOOSE i \in 1..Len(s) :
                      s[i] = NL /\ \A j \in 1..(i - 1) : s[j] # NL
         IN  <<Take(s, k - 1)>> \o SplitNL(Drop(s, k))


-----------------------------------------------------------------------------
(* JSON.parse, on the payloads the model feeds it: string literals with the *)
(* escapes \" \\ \/ \n \t \r, integers, true, false, null, {} and [],       *)
(* each with optional surrounding whitespace.  Anything else is reported    *)
(* as a SyntaxError (ok = FALSE); Texts holds no payload outside this       *)
(* grammar that JSON.parse would accept.                                    *)

JSONWhitespace == {" ", "\t", "\r", NL}
Digits == {"0", "1", "2", "3", "4", "5", "6", "7", "8", "9"}

RECURSIVE TrimLeft(_)
TrimLeft(s) ==
    IF s # <<>> /\ Head(s) \in JSONWhitespace THEN TrimLeft(Tail(s)) ELSE s

RECURSIVE TrimRight(_)
TrimRight(s) ==
    IF s # <<>> /\ s[Len(s)] \in JSONWhitespace
    THEN TrimRight(Take(s, Len(s) - 1)) ELSE s

Trim(s) == TrimRight(TrimLeft(s))

Unescape(c) ==
    CASE c = "n" -> NL
      [] c = "t" -> "\t"
      [] c = "r" -> "\r"
      [] OTHER -> c

\* The characters after the opening quote of a string literal, from index i:
\* the decoded string, or a SyntaxError.
RECURSIVE StringBody(_, _, _)
StringBody(s, i, acc) ==
    IF i > Len(s) THEN [ok |-> FALSE, val |-> <<>>]
    ELSE IF s[i] = QUOTE THEN [ok |-> i = Len(s), val |-> acc]
    ELSE IF s[i] = BSLASH
         THEN IF i + 1 <= Len(s) /\ s[i + 1] \in {QUOTE, BSLASH, "/", "n", "t", "r"}
              THEN StringBody(s, i + 2, Append(acc, Unescape(s[i + 1])))
              ELSE [ok |-> FALSE, val |-> <<>>]
    ELSE IF s[i] \in {"\t", "\r", NL} THEN [ok |-> FALSE, val |-> <<>>]
    ELSE StringBody(s, i + 1, Append(acc, s[i]))

IsDigits(s) == s # <<>> /\ \A i \in 1..Len(s) : s[i] \in Digits

\* -?(0|[1-9][0-9]*)
IsInteger(s) ==
    LET d == IF s # <<>> /\ Head(s) = "-" THEN Tail(s) ELSE s
    IN  IsDigits(d) /\ (Head(d) = "0" => Len(d) = 1)

JSONParse(data) ==
    LET s == Trim(data) IN
    IF s # <<>> /\ Head(s) = QUOTE
    THEN LET r == StringBody(s, 2, <<>>)
         IN  [ok |-> r.ok, type |-> "string", val |-> r.val]
    ELSE IF s = <<"n", "u", "l", "l">> THEN [ok |-> TRUE, type |-> "null", val |-> s]
    ELSE IF s = <<"t", "r", "u", "e">> \/ s = <<"f", "a", "l", "s", "e">>
         THEN [ok |-> TRUE, type |-> "boolean", val |-> s]
    ELSE IF s = <<"{", "}">> THEN [ok |-> TRUE, type |-> "object", val |-> s]
    ELSE IF s = <<"[", "]">> THEN [ok |-> TRUE, type |-> "array", val |-> s]
    ELSE IF IsInteger(s) THEN [ok |-> TRUE, type |-> "number", val |-> s]
    ELSE [ok |-> FALSE, type |-> "string", val |-> <<>>]

\* JavaScript truthiness of a parsed value
Truthy(v) ==
    CASE v.type = "string" -> v.val # <<>>
      [] v.type = "number" -> v.val \notin {<<"0">>, <<"-", "0">>}
      [] v.type = "boolean" -> v.val = <<"t", "r", "u", "e">>
      [] v.type = "null" -> FALSE
      [] OTHER -> TRUE

StringValue(s) == [type |-> "string", val |-> s]

PrefixLen == 6

\* a decoder that leaves the prefix in the payload
DecodeLine_KeepsPrefix(line) ==
    IF StartsWith(line, DataPrefix)
    THEN LET data == line
             text == JSONParse(data)
         IN  IF text.ok
             THEN IF Truthy(text) THEN <<[type |-> text.type, val |-> text.val]>>
                  ELSE <<>>
             ELSE IF data # <<>> THEN <<StringValue(data)>> ELSE <<>>
    ELSE <<>>

\* a decoder that takes a line without the prefix for a raw payload
DecodeLine_NoPrefixCheck(line) ==
    LET data == IF StartsWith(line, DataPrefix) THEN Drop(line, PrefixLen) ELSE line
        text == JSONParse(data)
    IN  IF text.ok
        THEN IF Truthy(text) THEN <<[type |-> text.type, val |-> text.val]>>
             ELSE <<>>
        ELSE IF data # <<>> THEN <<StringValue(data)>> ELSE <<>>

\* What one complete line makes the generator yield: zero or one value.
DecodeLine(line) ==
    IF StartsWith(line, DataPrefix)
    THEN LET data == Drop(line, PrefixLen)
             text == JSONParse(data)
         IN  IF text.ok
             THEN IF Truthy(text) THEN <<[type |-> text.type, val |-> text.val]>>
                  ELSE <<>>
             ELSE IF data # <<>> THEN <<StringValue(data)>> ELSE <<>>
    ELSE <<>>

RECURSIVE DecodeLines(_)
DecodeLines(lines) ==
    IF lines = <<>> THEN <<>>
    ELSE DecodeLine(Head(lines)) \o DecodeLines(Tail(lines))

\* the trailing fragment thrown away instead of kept for the next chunk
PopLast_Dropped(lines) == <<>>

\* lines.pop() || ''
PopLast(lines) == lines[Len(lines)]

\* One turn of the read loop on a chunk: the new buffer and the values yielded.
DecodeChunk(buf, chunk) ==
    LET lines == SplitNL(buf \o chunk)
    IN  [buffer |-> PopLast(lines),
         events |-> DecodeLines(Take(lines, Len(lines) - 1))]

-----------------------------------------------------------------------------
(* Response bodies *)

ScenarioB ==
    DataPrefix \o <<QUOTE, "H", "e", "l", "l", "o", QUOTE, NL>>
    \o LogMarker \o <<" ", "t", "o", "o", "l", "=", "x", NL>>
    \o DataPrefix \o <<QUOTE, " ", "w", "o", "r", "l", "d", QUOTE, NL>>

\* an escaped quote, a prefixed log line, an unterminated last line
EscapedAndLog ==
    DataPrefix \o <<QUOTE, "a", BSLASH, QUOTE, "b", QUOTE, NL>>
    \o DataPrefix \o LogMarker \o <<" ", "t", NL>>
    \o DataPrefix \o <<"c">>

NumberLine == DataPrefix \o <<"4", "2", NL>> \o DataPrefix \o <<"z", NL>>

NullThenRaw ==
    DataPrefix \o <<"n", "u", "l", "l", NL>> \o DataPrefix \o <<"x", NL>>

ObjectLine == DataPrefix \o <<"{", "}", NL>>

EmptyPayloads ==
    DataPrefix \o <<NL>> \o DataPrefix \o <<QUOTE, QUOTE, NL>> \o <<"o", "k", NL>>

QuotedLog ==
    DataPrefix \o <<QUOTE>> \o LogMarker \o <<" ", "q", QUOTE, NL>>
    \o DataPrefix \o <<"h", "i", NL, NL>>

FalsyThenArray ==
    DataPrefix \o <<"f", "a", "l", "s", "e", NL>>
    \o DataPrefix \o <<"0", NL>>
    \o DataPrefix \o <<"[", "]", NL>>
    \o DataPrefix \o <<"y", NL>>

UnclosedQuote ==
    DataPrefix \o <<QUOTE, "a", "b", NL>> \o <<"d", "a", "t", "a", ":", "w", NL>>
    \o DataPrefix \o <<" ", QUOTE, "k", QUOTE, " ", NL>>

\* two log lines, then a content line
TwoLogs ==
    DataPrefix \o LogMarker \o <<"a", NL>>
    \o DataPrefix \o LogMarker \o <<"b", NL>>
    \o DataPrefix \o <<"c", NL>>

Texts ==
    {ScenarioB, EscapedAndLog, NumberLine, NullThenRaw, ObjectLine, EmptyPayloads,
     QuotedLog, FalsyThenArray, UnclosedQuote, TwoLogs, <<>>}

-----------------------------------------------------------------------------
(* The chat page's onChunk callback (Home.tsx), on the closure variables *)

\* chunk.indexOf exists on strings and arrays only
HasIndexOf(chunk) == chunk.type \in {"string", "array"}

\* '' + chunk
ToText(chunk) == IF chunk.type = "array" THEN <<>> ELSE chunk.val

IsLog_Never(chunk) == FALSE

IsLog(chunk) == chunk.type = "string" /\ Includes(chunk.val, LogMarker)

\* One call of onChunk on the closure state st; threw is set when
\* chunk.indexOf is not a function.
OnChunk(st, chunk) ==
    IF ~HasIndexOf(chunk)
    THEN [st EXCEPT !.threw = TRUE]
    ELSE IF IsLog(chunk)
    THEN LET ld == st.logData \o chunk.val \o <<" ", NL>>
         IN  [st EXCEPT !.logData = ld, !.logResponse = st.logResponse \o ld]
    ELSE [st EXCEPT !.fullResponse = st.fullResponse \o ToText(chunk)]

\* for await (const chunk of ...) onChunk(chunk): the values are handed over
\* one by one until one makes the callback throw.
RECURSIVE ForAwait(_, _)
ForAwait(st, evs) ==
    IF evs = <<>> \/ st.threw THEN st
    ELSE ForAwait([OnChunk(st, Head(evs)) EXCEPT
                       !.delivered = Append(st.delivered, Head(evs))],
                  Tail(evs))

-----------------------------------------------------------------------------
(* streamAgent and streamAgentCoreRuntime *)

maxRetries == 1

\* a retry test that also admits the attempt after the last allowed one
ShouldRetry_AnyError(message, count) == count < maxRetries

ShouldRetry_OffByOne(message, count) ==
    message = "TOKEN_EXPIRED" /\ count <= maxRetries

\* the catch clause's test for refresh-and-retry
ShouldRetry(message, count) == message = "TOKEN_EXPIRED" /\ count < maxRetries

\* a loop that may not run again once a retry has been counted
LoopCondition_Strict(count) == count < maxRetries

\* the loop condition of streamAgent
LoopCondition(count) == count <= maxRetries

\* every 403 taken for an expired token, whatever its body
ErrorMessage_AnyForbidden(status, hasSignature) ==
    IF status = 403 THEN "TOKEN_EXPIRED" ELSE "HTTP_ERROR"

\* the message of the error thrown for a response that is not ok
ErrorMessage(status, hasSignature) ==
    IF status = 403 /\ hasSignature THEN "TOKEN_EXPIRED" ELSE "HTTP_ERROR"

Attempt(end, status, sig) == [end |-> end, status |-> status, sig |-> sig]

\* The catch clause of streamAgent, for an attempt that ended with an error.
Catch(a) ==
    /\ attempts' = Append(attempts, a)
    /\ IF ShouldRetry(a.end, retryCount)
       THEN /\ retryCount' = retryCount + 1
            /\ ipc' = "waiting"
            /\ error' = error
       ELSE /\ ipc' = "thrown"
            /\ error' = a.end
            /\ retryCount' = retryCount

\* The head of streamAgentCoreRuntime up to the fetch: the token is read from
\* localStorage, the endpoint is looked up, the request is issued.
StartAttempt ==
    /\ UNCHANGED cvars
    /\ body' = <<>> /\ pos' = 0 /\ buffer' = <<>> /\ yielded' = <<>>
    /\ UNCHANGED <<accessToken, runtimeArn, delivered, fullResponse, logData,
                   logResponse>>
    /\ IF accessToken = ""
       THEN Catch(Attempt("NO_TOKEN", 0, FALSE)) /\ UNCHANGED requests
       ELSE IF runtimeArn = ""
       THEN Catch(Attempt("NO_ARN", 0, FALSE)) /\ UNCHANGED requests
       ELSE /\ requests' = Append(requests, [token |-> accessToken,
                                             endpoint |-> runtimeArn])
            /\ ipc' = "fetching"
            /\ UNCHANGED <<retryCount, attempts, error>>

\* streamAgent is called: the first turn of its loop.
Call ==
    /\ ipc = "init"
    /\ StartAttempt

\* The one-second wait is over: the loop condition is tested again.
RetryAfterDelay ==
    /\ ipc = "waiting"
    /\ IF LoopCondition(retryCount)
       THEN StartAttempt
       ELSE /\ ipc' = "returned"
            /\ UNCHANGED cvars
            /\ UNCHANGED <<retryCount, requests, attempts, error, accessToken,
                           runtimeArn, body, pos, buffer, yielded, delivered,
                           fullResponse, logData, logResponse>>

\* fetch rejects (connection refused, reset, ...)
FetchRejects ==
    /\ UNCHANGED cvars
    /\ ipc = "fetching"
    /\ Catch(Attempt("NETWORK", 0, FALSE))
    /\ UNCHANGED <<requests, accessToken, runtimeArn, body, pos, buffer, yielded,
                   delivered, fullResponse, logData, logResponse>>

\* A response that is not ok; reading its body may itself fail.
ResponseNotOk(status, hasSignature, textFails) ==
    /\ UNCHANGED cvars
    /\ ipc = "fetching"
    /\ IF textFails
       THEN Catch(Attempt("NETWORK", status, hasSignature))
       ELSE Catch(Attempt(ErrorMessage(status, hasSignature), status, hasSignature))
    /\ UNCHANGED <<requests, accessToken, runtimeArn, body, pos, buffer, yielded,
                   delivered, fullResponse, logData, logResponse>>

\* A 200 response whose body will carry text t.
ResponseOk(t) ==
    /\ UNCHANGED cvars
    /\ ipc = "fetching"
    /\ ipc' = "reading"
    /\ body' = t
    /\ pos' = 0
    /\ buffer' = <<>>
    /\ yielded' = <<>>
    /\ UNCHANGED <<retryCount, requests, attempts, error, accessToken, runtimeArn,
                   delivered, fullResponse, logData, logResponse>>

\* reader.read() hands out the next n characters; the lines they complete are
\* decoded and handed to onChunk.
ReadChunk(n) ==
    /\ UNCHANGED cvars
    /\ ipc = "reading"
    /\ n \in 0..(Len(body) - pos)
    /\ LET d == DecodeChunk(buffer, SubSeq(body, pos + 1, pos + n))
           st == ForAwait([fullResponse |-> fullResponse, logData |-> logData,
                           logResponse |-> logResponse, delivered |-> delivered,
                           threw |-> FALSE], d.events)
       IN  /\ pos' = pos + n
           /\ buffer' = d.buffer
           /\ yielded' = yielded \o Take(d.events, Len(st.delivered) - Len(delivered))
           /\ delivered' = st.delivered
           /\ fullResponse' = st.fullResponse
           /\ logData' = st.logData
           /\ logResponse' = st.logResponse
           /\ IF st.threw
              THEN Catch(Attempt("CALLBACK_ERROR", 200, FALSE))
              ELSE UNCHANGED <<ipc, retryCount, attempts, error>>
    /\ UNCHANGED <<requests, accessToken, runtimeArn, body>>

\* a reader that decodes the buffered fragment as a last line when done
ReadDone_Flushes ==
    /\ UNCHANGED cvars
    /\ ipc = "reading"
    /\ pos = Len(body)
    /\ LET st == ForAwait([fullResponse |-> fullResponse, logData |-> logData,
                           logResponse |-> logResponse, delivered |-> delivered,
                           threw |-> FALSE], DecodeLine(buffer))
       IN  /\ yielded' = yielded \o DecodeLine(buffer)
           /\ delivered' = st.delivered
           /\ fullResponse' = st.fullResponse
           /\ logData' = st.logData
           /\ logResponse' = st.logResponse
    /\ ipc' = "returned"
    /\ attempts' = Append(attempts, Attempt("OK", 200, FALSE))
    /\ UNCHANGED <<retryCount, requests, error, accessToken, runtimeArn, body, pos,
                   buffer>>

\* reader.read() reports done: the generator returns and streamAgent with it.
ReadDone ==
    /\ UNCHANGED cvars
    /\ ipc = "reading"
    /\ pos = Len(body)
    /\ ipc' = "returned"
    /\ attempts' = Append(attempts, Attempt("OK", 200, FALSE))
    /\ UNCHANGED <<retryCount, requests, error, accessToken, runtimeArn, body, pos,
                   buffer, yielded, delivered, fullResponse, logData, logResponse>>

\* reader.read() rejects while the body is being read
ReadError ==
    /\ UNCHANGED cvars
    /\ ipc = "reading"
    /\ Catch(Attempt("READ_ERROR", 200, FALSE))
    /\ UNCHANGED <<requests, accessToken, runtimeArn, body, pos, buffer, yielded,
                   delivered, fullResponse, logData, logResponse>>

ErrorStatuses == {401, 403, 500}

InvokeInit ==
    /\ ipc = "init"
    /\ retryCount = 0
    /\ requests = <<>>
    /\ attempts = <<>>
    /\ error = ""
    /\ accessToken \in {"", "token"}
    /\ runtimeArn \in {"", "arn"}
    /\ body = <<>>
    /\ pos = 0
    /\ buffer = <<>>
    /\ yielded = <<>>
    /\ delivered = <<>>
    /\ fullResponse = <<>>
    /\ logData = <<>>
    /\ logResponse = <<>>
    /\ messages = <<>>
    /\ sessionId = ""
    /\ lsSessionId = ""
    /\ urlSession = ""
    /\ turns = <<>>
    /\ baseUrl = ""
    /\ net = {}
    /\ loads = {}
    /\ navigations = 0
    /\ storeFailures = 0
    /\ storeSessions = {}
    /\ storeLog = <<>>
    /\ bytes = <<>>
    /\ result = <<>>
    /\ callResults = <<>>
    /\ deletedSessions = {}

InvokeNext ==
    \/ Call
    \/ RetryAfterDelay
    \/ FetchRejects
    \/ \E status \in ErrorStatuses, sig \in BOOLEAN, textFails \in BOOLEAN :
           ResponseNotOk(status, sig, textFails)
    \/ \E t \in Texts : ResponseOk(t)
    \/ \E n \in 0..Len(body) : ReadChunk(n)
    \/ ReadDone
    \/ ReadError

SpecInvoke == InvokeInit /\ [][InvokeNext]_vars

\* The steps streamAgent takes by itself are taken: the call starts and the
\* one-second timer fires. Nothing makes the remote runtime answer, and the
\* code sets no timeout on fetch or on reader.read().
SpecInvokeFair ==
    InvokeInit /\ [][InvokeNext]_vars /\ WF_vars(Call) /\ WF_vars(RetryAfterDelay)

-----------------------------------------------------------------------------
(* Properties of one call of streamAgent (checked under SpecInvoke) *)

\* the attempt was answered 403 with the 'Ineffectual token' body, and the
\* body was read
IsCredentialRejected(a) == a.status = 403 /\ a.sig /\ a.end # "NETWORK"

\* the values the body yields when it arrives as one single chunk
WholeEvents(t) == DecodeChunk(<<>>, t).events

ContentEvents(evs) == SelectSeq(evs, LAMBDA e : ~IsLog(e))
LogEvents(evs) == SelectSeq(evs, IsLog)
Texts_Of(evs) == [i \in 1..Len(evs) |-> ToText(evs[i])]

HelloText == <<"H", "e", "l", "l", "o">>
WorldText == <<" ", "w", "o", "r", "l", "d">>

\* C2: when the first two attempts are both answered with the
\* credential-rejected signature, streamAgent has issued exactly two requests
\* and has thrown: it is not waiting to try again and has not returned.
C2_RetryBound ==
    (Len(attempts) >= 2 /\ IsCredentialRejected(attempts[1])
                        /\ IsCredentialRejected(attempts[2]))
    => /\ ipc = "thrown"
       /\ error = "TOKEN_EXPIRED"
       /\ Len(attempts) = 2
       /\ Len(requests) = 2
       /\ retryCount = 1

C2_Witness ==
    /\ ipc = "thrown"
    /\ Len(attempts) = 2
    /\ IsCredentialRejected(attempts[1])
    /\ IsCredentialRejected(attempts[2])

\* C3: after a first attempt answered with the credential-rejected signature
\* the call goes on with exactly one retry and nothing has reached the
\* callback; when the second attempt succeeds the call returns, two requests
\* were issued, the callback received exactly the second body's events, each
\* once, and the assembled content is that body's content.
C3_RetryThenSuccess ==
    /\ (Len(attempts) = 1 /\ IsCredentialRejected(attempts[1]))
       => /\ ipc \in {"waiting", "fetching", "reading"}
          /\ retryCount = 1
          /\ Len(requests) \in {1, 2}
          /\ delivered = yielded
    /\ (Len(attempts) = 2 /\ IsCredentialRejected(attempts[1])
                          /\ attempts[2].end = "OK")
       => /\ ipc = "returned"
          /\ retryCount = 1
          /\ Len(requests) = 2
          /\ delivered = WholeEvents(body)
          /\ fullResponse = Concat(Texts_Of(ContentEvents(WholeEvents(body))))

C3_Witness ==
    /\ ipc = "returned"
    /\ Len(attempts) = 2
    /\ IsCredentialRejected(attempts[1])
    /\ attempts[2].end = "OK"
    /\ body = ScenarioB
    /\ fullResponse = HelloText \o WorldText

\* C4 (as claimed): the request of a retry carries another credential than
\* the request that was just rejected.
C4_RefreshBeforeRetry ==
    \A i \in 2..Len(requests) :
        IsCredentialRejected(attempts[i - 1])
        => requests[i].token # requests[i - 1].token

\* C5: an attempt that fails in any other way than the credential-rejected
\* signature on the first attempt ends the call: the error is thrown to the
\* caller and no request follows the failed attempt.
C5_OtherFailuresTerminal ==
    \A i \in 1..Len(attempts) :
        (attempts[i].end # "OK" /\ ~(i = 1 /\ IsCredentialRejected(attempts[i])))
        => /\ ipc = "thrown"
           /\ error = attempts[i].end
           /\ Len(attempts) = i
           /\ Len(requests) <= i
           /\ retryCount = i - 1

C5_Witness ==
    /\ ipc = "thrown"
    /\ Len(attempts) = 1
    /\ attempts[1].status = 403
    /\ ~attempts[1].sig
    /\ attempts[1].end = "HTTP_ERROR"
    /\ Len(requests) = 1

\* C6: however the body is split into chunks, the values yielded after a
\* prefix of it has been read, and the fragment kept in the buffer, are those
\* of reading that prefix as one single chunk.
C6_ChunkIndependence ==
    (ipc \in {"reading", "returned"})
    => /\ yielded = WholeEvents(Take(body, pos))
       /\ buffer = DecodeChunk(<<>>, Take(body, pos)).buffer

\* a chunk boundary inside a line, after an earlier line has yielded
C6_Witness ==
    /\ ipc = "reading"
    /\ body = ScenarioB
    /\ yielded # <<>>
    /\ buffer # <<>>
    /\ pos < Len(body)

\* C7 (as claimed): Scenario B yields the content events "Hello" and
\* " world", one log event "tool=x", and the assembled content "Hello world".
C7_ScenarioB_Original ==
    (ipc = "returned" /\ body = ScenarioB)
    => /\ Texts_Of(ContentEvents(delivered)) = <<HelloText, WorldText>>
       /\ Texts_Of(LogEvents(delivered)) = <<<<"t", "o", "o", "l", "=", "x">>>>
       /\ fullResponse = HelloText \o WorldText

\* C7 (amended): Scenario B yields the content events "Hello" and " world"
\* and no log event, the line '[LOG] tool=x' carrying no 'data: ' prefix; the
\* assembled content is "Hello world" and the log transcript stays empty.
C7_ScenarioB ==
    (ipc = "returned" /\ body = ScenarioB)
    => /\ Texts_Of(ContentEvents(delivered)) = <<HelloText, WorldText>>
       /\ LogEvents(delivered) = <<>>
       /\ logData = <<>>
       /\ fullResponse = HelloText \o WorldText

C7_Witness ==
    /\ ipc = "returned"
    /\ body = ScenarioB
    /\ Len(delivered) = 2
    /\ Len(requests) = 1

\* what C8 claims a complete line yields: the decoded string for a JSON
\* string literal, the raw payload otherwise (an empty text counts as no event)
ClaimedLine(line) ==
    IF StartsWith(line, DataPrefix)
    THEN LET data == Drop(line, PrefixLen)
             text == JSONParse(data)
             out == IF text.ok /\ text.type = "string" THEN text.val ELSE data
         IN  IF out # <<>> THEN <<StringValue(out)>> ELSE <<>>
    ELSE <<>>

RECURSIVE ClaimedLines(_)
ClaimedLines(lines) ==
    IF lines = <<>> THEN <<>>
    ELSE ClaimedLine(Head(lines)) \o ClaimedLines(Tail(lines))

CompleteLines(t) == LET lines == SplitNL(t) IN Take(lines, Len(lines) - 1)

\* C8 (as claimed): every prefixed line read so far has yielded the decoded
\* string or else its raw payload, and no payload has made the call fail.
C8_PayloadPassthrough ==
    /\ \A i \in 1..Len(attempts) : attempts[i].end # "CALLBACK_ERROR"
    /\ (ipc \in {"reading", "returned"})
       => yielded = ClaimedLines(CompleteLines(Take(body, pos)))

\* the agent mode resolves to no endpoint and streamAgent has been called
NoEndpoint == runtimeArn = "" /\ ipc # "init"

\* the call failed at once: no request was issued, nothing was retried
FailedAtOnce ==
    /\ ipc = "thrown"
    /\ requests = <<>>
    /\ retryCount = 0
    /\ Len(attempts) = 1

\* C17 (as claimed): when the agent mode resolves to no endpoint the call
\* fails at once, without a request and without a retry, and the error is the
\* configuration error.
C17_ConfigError_Original ==
    NoEndpoint => (FailedAtOnce /\ error = "NO_ARN")

\* C17 (amended): when the agent mode resolves to no endpoint the call fails
\* at once, without a request and without a retry; the error is the
\* configuration error when an access token is stored, and the missing-token
\* error when none is, because the token is tested first.
C17_ConfigError ==
    NoEndpoint
    => (FailedAtOnce /\ error = IF accessToken = "" THEN "NO_TOKEN" ELSE "NO_ARN")

C17_Witness ==
    /\ NoEndpoint
    /\ accessToken # ""
    /\ FailedAtOnce
    /\ error = "NO_ARN"

\* the log events of a turn in their order, each followed by the separator
\* onChunk puts after it
LogTranscript(evs) ==
    LET logs == LogEvents(evs)
    IN  Concat([k \in 1..Len(logs) |-> logs[k].val \o <<" ", NL>>])

\* C19 (as claimed): the log transcript is empty when the turn starts, and
\* when the call has returned it holds the turn's log events in their order,
\* each exactly once.
C19_LogTranscript ==
    /\ (ipc = "init") => (logResponse = <<>>)
    /\ (ipc = "returned") => (logResponse = LogTranscript(delivered))

\* C20 (as claimed): every call of streamAgent ends, by returning or by
\* throwing, even when the remote runtime never answers or stops sending.
C20_EventuallyEnds == <>(ipc \in {"returned", "thrown"})

\* the value a payload stands for: the parsed value when it is JSON and
\* truthy, the payload itself when it is not JSON and not empty
PayloadValue(data) ==
    LET text == JSONParse(data)
    IN  IF text.ok
        THEN IF Truthy(text) THEN <<[type |-> text.type, val |-> text.val]>>
             ELSE <<>>
        ELSE IF data # <<>> THEN <<StringValue(data)>> ELSE <<>>

\* the payloads of the lines that begin with 'data: ', the six characters of
\* the prefix taken off
PrefixedPayloads(lines) ==
    LET prefixed == SelectSeq(lines, LAMBDA l : Len(l) >= 6 /\ Take(l, 6) = DataPrefix)
    IN  [k \in 1..Len(prefixed) |-> SubSeq(prefixed[k], 7, Len(prefixed[k]))]

\* C24: the values yielded are those of the payloads of the complete lines
\* that begin with 'data: ', in their order, the prefix taken off; a complete
\* line without the prefix yields nothing.
C24_PrefixedLinesOnly ==
    (ipc \in {"reading", "returned"})
    => LET payloads == PrefixedPayloads(CompleteLines(Take(body, pos)))
       IN  yielded = Concat([k \in 1..Len(payloads) |-> PayloadValue(payloads[k])])

\* a body with a line 'data:w' between two prefixed lines has been read
C24_Witness ==
    /\ ipc = "returned"
    /\ body = UnclosedQuote
    /\ Len(yielded) = 2
    /\ Len(CompleteLines(body)) = 3

\* the text after the last newline of a body
Fragment(t) == LET lines == SplitNL(t) IN lines[Len(lines)]

\* C30: when the call has returned, the fragment after the last newline is
\* still in the buffer and has yielded nothing: the values yielded and the
\* assembled content are those of the body without that fragment.
C30_TrailingFragmentDiscarded ==
    (ipc = "returned")
    => LET whole == Take(body, Len(body) - Len(Fragment(body)))
       IN  /\ buffer = Fragment(body)
           /\ yielded = DecodeLines(CompleteLines(whole))
           /\ delivered = yielded
           /\ fullResponse = Concat(Texts_Of(ContentEvents(yielded)))

\* a body that ends with the unterminated line 'data: c' has been read
C30_Witness ==
    /\ ipc = "returned"
    /\ body = EscapedAndLog
    /\ buffer = DataPrefix \o <<"c">>
    /\ Len(yielded) = 2
    /\ fullResponse = <<"a", QUOTE, "b">>

-----------------------------------------------------------------------------
(* generateSessionId (utils.ts), on the bytes the random source returns *)

\* generateSessionId(33) of onPromptSend
SessionIdLength == 33

\* const chars = "abcdefghijklmnopqrstuvwxyz"
chars == <<"a", "b", "c", "d", "e", "f", "g", "h", "i", "j", "k", "l", "m",
           "n", "o", "p", "q", "r", "s", "t", "u", "v", "w", "x", "y", "z">>

\* an alphabet of sixteen characters indexed by the low four bits
CharOf_Hex(b) ==
    <<"0", "1", "2", "3", "4", "5", "6", "7", "8", "9",
      "a", "b", "c", "d", "e", "f">>[(b % 16) + 1]

\* chars[b % chars.length]
CharOf(b) == chars[(b % Len(chars)) + 1]

\* for (let b of bytes) result += chars[b % chars.length]
RECURSIVE GenerateFrom(_)
GenerateFrom(bs) ==
    IF bs = <<>> THEN <<>> ELSE <<CharOf(Head(bs))>> \o GenerateFrom(Tail(bs))

\* values of a Uint8Array element, the ends of the range and the multiples
\* of the alphabet's length among them
ByteSamples == {0, 1, 25, 26, 27, 51, 52, 127, 128, 233, 234, 254, 255}

\* crypto.getRandomValues(new Uint8Array(length)): the arrays explored hold
\* one sample everywhere but at one place
RandomArrays ==
    {[k \in 1..SessionIdLength |-> IF k = p THEN c ELSE b] :
        b \in ByteSamples, c \in ByteSamples, p \in 1..SessionIdLength}

\* the call of generateSessionId
Generate ==
    /\ result = <<>>
    /\ result' = GenerateFrom(bytes)
    /\ UNCHANGED <<bytes, callResults, deletedSessions, ipc, retryCount, requests, attempts, error, accessToken,
                   runtimeArn, body, pos, buffer, yielded, delivered, fullResponse,
                   logData, logResponse, messages, sessionId, lsSessionId,
                   urlSession, turns, baseUrl, net, loads, navigations,
                   storeFailures, storeSessions, storeLog>>

SessionIdInit ==
    /\ bytes \in RandomArrays
    /\ result = <<>>
    /\ callResults = <<>>
    /\ deletedSessions = {}
    /\ ipc = "init"
    /\ retryCount = 0
    /\ requests = <<>>
    /\ attempts = <<>>
    /\ error = ""
    /\ accessToken = "token"
    /\ runtimeArn = "arn"
    /\ body = <<>>
    /\ pos = 0
    /\ buffer = <<>>
    /\ yielded = <<>>
    /\ delivered = <<>>
    /\ fullResponse = <<>>
    /\ logData = <<>>
    /\ logResponse = <<>>
    /\ messages = <<>>
    /\ sessionId = ""
    /\ lsSessionId = ""
    /\ urlSession = ""
    /\ turns = <<>>
    /\ baseUrl = ""
    /\ net = {}
    /\ loads = {}
    /\ navigations = 0
    /\ storeFailures = 0
    /\ storeSessions = {}
    /\ storeLog = <<>>

SessionIdNext == Generate

SpecSessionId == SessionIdInit /\ [][SessionIdNext]_vars

Alphabet == {"a", "b", "c", "d", "e", "f", "g", "h", "i", "j", "k", "l", "m",
             "n", "o", "p", "q", "r", "s", "t", "u", "v", "w", "x", "y", "z"}

\* C22: the id generated holds at least 33 characters, one for each byte
\* drawn, and every character is one of the letters a to z.
C22_SessionIdAlphabet ==
    (result # <<>>)
    => /\ Len(result) >= 33
       /\ Len(result) = Len(bytes)
       /\ \A k \in 1..Len(result) : result[k] \in Alphabet

\* an id generated from bytes that hold 255 and a multiple of 26
C22_Witness ==
    /\ result # <<>>
    /\ \E k, j \in 1..Len(bytes) : bytes[k] = 255 /\ bytes[j] = 234
    /\ \E k, j \in 1..Len(result) : result[k] = "v" /\ result[j] = "a"

-----------------------------------------------------------------------------
(* The chat page: onPromptSend, its callbacks, session switch and new chat,  *)
(* and the chat store answering the calls of chatServices.ts.                *)

MaxTurns == 2
MaxNavigations == 1
MaxStoreFailures == 1

\* generateSessionId(33): the k-th identifier drawn (random 33-letter strings,
\* taken to be distinct)
GeneratedIds == <<"gen1", "gen2", "gen3", "gen4">>
generateSessionId(k) == GeneratedIds[k]

OldSession == "old"
SessionIds == {OldSession} \cup {GeneratedIds[k] : k \in 1..Len(GeneratedIds)}

Prompts == {<<"p">>}

\* bodies a turn's successful attempt may carry
TurnTexts == {ScenarioB, QuotedLog, ObjectLine, <<>>}

WelcomeContent == <<"Hello, please enter your query below">>
LoadingContent == <<"Generating a response">>
FailureContent == <<"Unable process now please try after sometime">>

getInitialMessages == <<[authorId |-> "gen-ai", content |-> WelcomeContent]>>
getLoadingMessage == [authorId |-> "gen-ai", content |-> LoadingContent]

Message(author, content) == [authorId |-> author, content |-> content]

SetSlot_Appends(msgs, botMessageIndex, message) == Append(msgs, message)

\* updated[botMessageIndex] = message, when the index is inside the transcript
\* (botMessageIndex counts from 0)
SetSlot(msgs, botMessageIndex, message) ==
    IF botMessageIndex >= 0 /\ botMessageIndex < Len(msgs)
    THEN [msgs EXCEPT ![botMessageIndex + 1] = message]
    ELSE msgs

\* a call of chatServices.ts on its way to the store; nothing is sent when the
\* chat API is not configured
StoreCall(op, sid, role, content, turn) ==
    IF baseUrl = "" THEN {}
    ELSE {[op |-> op, session_id |-> sid, role |-> role, content |-> content,
           turn |-> turn]}

\* the number of sessions generated so far
Generated == Cardinality({i \in 1..Len(turns) : turns[i].created})

RequestOf_StoredId(prompt, curSessionId) ==
    [prompt |-> prompt, sessionId |-> lsSessionId]

RequestOf_ClearedPrompt(prompt, curSessionId) ==
    [prompt |-> <<>>, sessionId |-> curSessionId]

\* the payload of the request streamAgentCoreRuntime posts for a turn
RequestOf(prompt, curSessionId) == [prompt |-> prompt, sessionId |-> curSessionId]

NoStoredSessionId_Always == TRUE

\* !localStorage.getItem("sessionId")
NoStoredSessionId == lsSessionId = ""

\* onPromptSend up to its await of streamAgent; t is the body the successful
\* attempt of the invocation will carry.
Submit(value, t) ==
    /\ Len(turns) < MaxTurns
    /\ LET isNew == NoStoredSessionId
           curSessionId == IF isNew THEN generateSessionId(Generated + 1)
                           ELSE sessionId
           id == Len(turns) + 1
           \* the prompt state of the render: the input is controlled
           \* (value={prompt}), so onAction's detail.value is that state
           prompt == value
       IN  /\ logResponse' = <<>>
           /\ sessionId' = IF isNew THEN curSessionId ELSE sessionId
           /\ lsSessionId' = IF isNew THEN curSessionId ELSE lsSessionId
           /\ messages' = messages \o <<Message("user-john-due", value),
                                        getLoadingMessage>>
           /\ net' = net
                     \cup (IF isNew
                           THEN StoreCall("create", curSessionId, "", <<>>, id)
                           ELSE {})
                     \cup StoreCall("append", curSessionId, "user", value, id)
           /\ turns' = Append(turns,
                 [session_id |-> curSessionId, value |-> value, created |-> isNew,
                  botMessageIndex |-> Len(messages) + 1,
                  fullResponse |-> <<>>, logData |-> <<>>,
                  stream |-> WholeEvents(t), status |-> "inflight",
                  conversation |-> navigations,
                  prompt |-> prompt, events |-> WholeEvents(t),
                  requests |-> <<RequestOf(prompt, curSessionId)>>])
    /\ UNCHANGED <<urlSession, baseUrl, loads, navigations, storeFailures,
                   storeSessions, storeLog>>
    /\ UNCHANGED ivars
    /\ UNCHANGED deletedSessions

ShowFailure_KeepsPartial(i) ==
    /\ messages' = messages
    /\ UNCHANGED net

\* the catch clause of onPromptSend
ShowFailure(i) ==
    /\ messages' = SetSlot(messages, turns[i].botMessageIndex,
                           Message("gen-ai", FailureContent))
    /\ UNCHANGED net

\* streamAgent hands the next value of turn i to the onChunk callback.
Deliver(i) ==
    /\ i \in 1..Len(turns)
    /\ turns[i].status = "inflight"
    /\ turns[i].stream # <<>>
    /\ LET chunk == Head(turns[i].stream)
           st == OnChunk([fullResponse |-> turns[i].fullResponse,
                          logData |-> turns[i].logData,
                          logResponse |-> logResponse, threw |-> FALSE], chunk)
       IN  /\ turns' = [turns EXCEPT ![i].stream = Tail(@),
                                     ![i].fullResponse = st.fullResponse,
                                     ![i].logData = st.logData,
                                     ![i].status = IF st.threw THEN "failed" ELSE @]
           /\ logResponse' = st.logResponse
           /\ IF st.threw THEN ShowFailure(i)
              ELSE IF IsLog(chunk) THEN UNCHANGED <<messages, net>>
              ELSE /\ messages' = SetSlot(messages, turns[i].botMessageIndex,
                                          Message("gen-ai", st.fullResponse))
                   /\ UNCHANGED net
    /\ UNCHANGED <<sessionId, lsSessionId, urlSession, baseUrl, loads, navigations,
                   storeFailures, storeSessions, storeLog>>
    /\ UNCHANGED ivars
    /\ UNCHANGED deletedSessions

Complete_NoAppend(i) ==
    /\ i \in 1..Len(turns)
    /\ turns[i].status = "inflight"
    /\ turns[i].stream = <<>>
    /\ turns' = [turns EXCEPT ![i].status = "done"]
    /\ UNCHANGED <<logResponse, messages, sessionId, lsSessionId, urlSession,
                   baseUrl, loads, navigations, storeFailures, storeSessions,
                   storeLog, net>>
    /\ UNCHANGED ivars
    /\ UNCHANGED deletedSessions

\* The first request of turn i is answered with the rejected-credential
\* signature: streamAgent calls streamAgentCoreRuntime again with the same
\* arguments.
Retry(i) ==
    /\ i \in 1..Len(turns)
    /\ turns[i].status = "inflight"
    /\ Len(turns[i].requests) <= maxRetries
    /\ turns[i].fullResponse = <<>>
    /\ turns[i].logData = <<>>
    /\ turns' = [turns EXCEPT ![i].requests =
                     Append(@, RequestOf(turns[i].prompt, turns[i].session_id))]
    /\ UNCHANGED <<logResponse, messages, sessionId, lsSessionId, urlSession,
                   baseUrl, net, loads, navigations, storeFailures, storeSessions,
                   storeLog>>
    /\ UNCHANGED ivars
    /\ UNCHANGED deletedSessions

\* streamAgent returns: the assistant message is sent to the store.
Complete(i) ==
    /\ i \in 1..Len(turns)
    /\ turns[i].status = "inflight"
    /\ turns[i].stream = <<>>
    /\ turns' = [turns EXCEPT ![i].status = "done"]
    /\ net' = net \cup StoreCall("append", turns[i].session_id, "assistant",
                                 turns[i].fullResponse, i)
    /\ UNCHANGED <<logResponse, messages, sessionId, lsSessionId, urlSession,
                   baseUrl, loads, navigations, storeFailures, storeSessions,
                   storeLog>>
    /\ UNCHANGED ivars
    /\ UNCHANGED deletedSessions

\* streamAgent throws (no token, no endpoint, a failed request, a failed read).
Fail(i) ==
    /\ i \in 1..Len(turns)
    /\ turns[i].status = "inflight"
    /\ turns' = [turns EXCEPT ![i].status = "failed"]
    /\ ShowFailure(i)
    /\ UNCHANGED <<logResponse, sessionId, lsSessionId, urlSession, baseUrl, loads,
                   navigations, storeFailures, storeSessions, storeLog>>
    /\ UNCHANGED ivars
    /\ UNCHANGED deletedSessions

\* A session of the history list is followed: the effect on searchParams.
SwitchSession(sid) ==
    /\ sid \in storeSessions
    /\ sid # urlSession
    /\ navigations < MaxNavigations
    /\ navigations' = navigations + 1
    /\ urlSession' = sid
    /\ messages' = <<>>
    /\ sessionId' = sid
    /\ lsSessionId' = sid
    /\ loads' = IF baseUrl = "" THEN loads ELSE loads \cup {sid}
    /\ UNCHANGED <<logResponse, turns, baseUrl, net, storeFailures, storeSessions,
                   storeLog>>
    /\ UNCHANGED ivars
    /\ UNCHANGED deletedSessions

\* chat.messages.map(...) of loadChat
LoadedMessages(log) ==
    [k \in 1..Len(log) |->
        Message(IF log[k].role = "assistant" THEN "gen-ai" ELSE "user",
                log[k].content)]

\* getChatDetails is answered (with the log, or with no message on an error).
LoadArrives(sid, ok) ==
    /\ sid \in loads
    /\ ok \/ storeFailures < MaxStoreFailures
    /\ storeFailures' = IF ok THEN storeFailures ELSE storeFailures + 1
    /\ loads' = loads \ {sid}
    /\ messages' = IF ok THEN LoadedMessages(storeLog[sid]) ELSE <<>>
    /\ UNCHANGED <<logResponse, sessionId, lsSessionId, urlSession, turns, baseUrl,
                   net, navigations, storeSessions, storeLog>>
    /\ UNCHANGED ivars
    /\ UNCHANGED deletedSessions

\* handleNewChat, reached by the New Chat button while the page is shown
NewChat ==
    /\ lsSessionId # ""
    /\ navigations < MaxNavigations
    /\ navigations' = navigations + 1
    /\ lsSessionId' = ""
    /\ urlSession' = ""
    /\ UNCHANGED <<logResponse, messages, sessionId, turns, baseUrl, net, loads,
                   storeFailures, storeSessions, storeLog>>
    /\ UNCHANGED ivars
    /\ UNCHANGED deletedSessions

\* The store's handling of a deletion: the session and its log are removed.
StoreDelete(sid) ==
    /\ storeSessions' = storeSessions \ {sid}
    /\ storeLog' = [storeLog EXCEPT ![sid] = <<>>]

\* deleteSession of the history list: deleteChatSession is answered with
\* success and the list is fetched again; the chat page is not told.
DeleteSession(sid) ==
    /\ baseUrl # ""
    /\ sid \in storeSessions
    /\ navigations < MaxNavigations
    /\ navigations' = navigations + 1
    /\ deletedSessions' = deletedSessions \cup {sid}
    /\ StoreDelete(sid)
    /\ UNCHANGED <<logResponse, messages, sessionId, lsSessionId, urlSession, turns,
                   baseUrl, net, loads, storeFailures>>
    /\ UNCHANGED ivars

\* The store's handling of a call that reaches it: a session is created once,
\* a message is appended to the end of its session's log.
StoreApply(c) ==
    /\ storeSessions' = IF c.op = "create" THEN storeSessions \cup {c.session_id}
                        ELSE storeSessions
    /\ storeLog' = IF c.op = "append"
                   THEN [storeLog EXCEPT ![c.session_id] =
                            Append(@, [role |-> c.role, content |-> c.content,
                                       turn |-> c.turn])]
                   ELSE storeLog

\* One of the calls on their way reaches the store and is answered.
StoreHandles(c) ==
    /\ c \in net
    /\ net' = net \ {c}
    /\ StoreApply(c)
    /\ UNCHANGED <<logResponse, messages, sessionId, lsSessionId, urlSession, turns,
                   baseUrl, loads, navigations, storeFailures>>
    /\ UNCHANGED ivars
    /\ UNCHANGED deletedSessions

StoreFails_Propagates(c) ==
    /\ c \in net
    /\ storeFailures < MaxStoreFailures
    /\ storeFailures' = storeFailures + 1
    /\ net' = net \ {c}
    /\ messages' = SetSlot(messages, turns[c.turn].botMessageIndex,
                           Message("gen-ai", FailureContent))
    /\ UNCHANGED <<logResponse, sessionId, lsSessionId, urlSession, turns,
                   baseUrl, loads, navigations, storeSessions, storeLog>>
    /\ UNCHANGED ivars
    /\ UNCHANGED deletedSessions

\* One of the calls fails (axios rejects): the catch clause answers for it.
StoreFails(c) ==
    /\ c \in net
    /\ storeFailures < MaxStoreFailures
    /\ storeFailures' = storeFailures + 1
    /\ net' = net \ {c}
    /\ UNCHANGED <<logResponse, messages, sessionId, lsSessionId, urlSession, turns,
                   baseUrl, loads, navigations, storeSessions, storeLog>>
    /\ UNCHANGED ivars
    /\ UNCHANGED deletedSessions

OldLog ==
    <<[role |-> "user", content |-> <<"o">>, turn |-> 0],
      [role |-> "assistant", content |-> <<"r">>, turn |-> 0],
      [role |-> "user", content |-> <<"o">>, turn |-> 0],
      [role |-> "assistant", content |-> <<"r">>, turn |-> 0]>>

\* The page just shown for a new chat; the store holds one earlier session.
Init ==
    /\ ipc = "init"
    /\ retryCount = 0
    /\ requests = <<>>
    /\ attempts = <<>>
    /\ error = ""
    /\ accessToken = "token"
    /\ runtimeArn = "arn"
    /\ body = <<>>
    /\ pos = 0
    /\ buffer = <<>>
    /\ yielded = <<>>
    /\ delivered = <<>>
    /\ fullResponse = <<>>
    /\ logData = <<>>
    /\ logResponse = <<>>
    /\ messages = getInitialMessages
    /\ sessionId = ""
    /\ lsSessionId = ""
    /\ urlSession = ""
    /\ turns = <<>>
    /\ baseUrl \in {"", "api"}
    /\ net = {}
    /\ loads = {}
    /\ navigations = 0
    /\ storeFailures = 0
    /\ storeSessions = {OldSession}
    /\ storeLog = [sid \in SessionIds |-> IF sid = OldSession THEN OldLog ELSE <<>>]
    /\ bytes = <<>>
    /\ result = <<>>
    /\ callResults = <<>>
    /\ deletedSessions = {}

Next ==
    \/ \E value \in Prompts, t \in TurnTexts : Submit(value, t)
    \/ \E i \in 1..Len(turns) : Deliver(i)
    \/ \E i \in 1..Len(turns) : Retry(i)
    \/ \E i \in 1..Len(turns) : Complete(i)
    \/ \E i \in 1..Len(turns) : Fail(i)
    \/ \E sid \in SessionIds : SwitchSession(sid)
    \/ \E sid \in SessionIds, ok \in BOOLEAN : LoadArrives(sid, ok)
    \/ NewChat
    \/ \E sid \in SessionIds : DeleteSession(sid)
    \/ \E c \in net : StoreHandles(c)
    \/ \E c \in net : StoreFails(c)

Spec == Init /\ [][Next]_vars

-----------------------------------------------------------------------------
(* Properties of the chat page and the store (checked under Spec) *)

InFlight == {i \in 1..Len(turns) : turns[i].status = "inflight"}

\* the places of turn t's messages of a role in a session's log
PlacesOf(log, role, t) ==
    {k \in 1..Len(log) : log[k].role = role /\ log[k].turn = t}

\* C1 (as claimed): in every session's log the user message of a turn comes
\* before the assistant message of that turn, and once both are in the log the
\* assistant message is the entry right after the user message.
C1_LogInTurnOrder ==
    \A sid \in SessionIds :
        \A t \in 1..Len(turns) :
            \A u \in PlacesOf(storeLog[sid], "user", t),
               a \in PlacesOf(storeLog[sid], "assistant", t) : a = u + 1

\* C9 (as claimed): a conversation never has two turns in flight.
C9_OneInFlight ==
    \A i, j \in InFlight : turns[i].session_id = turns[j].session_id => i = j

\* C10 (as claimed): once another session has been selected, a step of a turn
\* of the abandoned session (a content increment, a failure) leaves the
\* visible transcript as it is.
C10_StaleUpdateSuppressed ==
    [][\A i \in 1..Len(turns) :
          (/\ turns[i].status = "inflight"
           /\ urlSession # ""
           /\ sessionId = urlSession
           /\ turns[i].session_id # sessionId
           /\ turns'[i] # turns[i])
          => messages' = messages]_vars

\* a is a prefix of b
IsPrefix(a, b) == Len(a) <= Len(b) /\ Take(b, Len(a)) = a

\* the transcript has an entry at a turn's botMessageIndex
HasSlot(msgs, i) == turns[i].botMessageIndex < Len(msgs)
SlotOf(msgs, i) == msgs[turns[i].botMessageIndex + 1]

\* C11 (as claimed): while a turn is in flight and its slot shows the content
\* the turn has received so far, the next value of the slot extends it: the
\* slot never goes back to a shorter prefix or to another content.
C11_SlotCumulative ==
    [][\A i \in 1..Len(turns) :
          (/\ turns[i].status = "inflight"
           /\ turns[i].fullResponse # <<>>
           /\ HasSlot(messages, i)
           /\ SlotOf(messages, i) = Message("gen-ai", turns[i].fullResponse)
           /\ HasSlot(messages', i)
           /\ turns'[i].status = "inflight")
          => IsPrefix(turns[i].fullResponse, SlotOf(messages', i).content)]_vars

\* the assistant messages of turn i on their way to the store or in a log
AssistantStored(i) ==
    {c \in net : c.role = "assistant" /\ c.turn = i}
    \cup UNION {{<<sid, k>> : k \in PlacesOf(storeLog[sid], "assistant", i)} :
                   sid \in SessionIds}

\* C12: the step at which a turn's invocation fails puts the fixed failure
\* message in the turn's slot, and no assistant message of a failed turn is
\* ever sent to the store or found in a log.
C12_FailureHandling ==
    /\ [][\A i \in 1..Len(turns) :
             (/\ turns[i].status = "inflight"
              /\ turns'[i].status = "failed"
              /\ HasSlot(messages, i))
             => /\ HasSlot(messages', i)
                /\ SlotOf(messages', i) = Message("gen-ai", FailureContent)]_vars
    /\ [](\A i \in 1..Len(turns) :
             turns[i].status = "failed" => AssistantStored(i) = {})

\* a turn has failed after streamed content; its slot shows the failure message
C12_Witness ==
    \E i \in 1..Len(turns) :
        /\ turns[i].status = "failed"
        /\ turns[i].fullResponse # <<>>
        /\ HasSlot(messages, i)
        /\ SlotOf(messages, i) = Message("gen-ai", FailureContent)
        /\ baseUrl # ""

\* the first turn of a new conversation has completed with an answer, the
\* store is configured and has answered every call, nothing else was done
ScenarioA ==
    /\ Len(turns) = 1
    /\ turns[1].status = "done"
    /\ turns[1].created
    /\ turns[1].fullResponse # <<>>
    /\ baseUrl # ""
    /\ net = {}
    /\ storeFailures = 0
    /\ navigations = 0

\* the roles and contents of a log, in its order
Entries(log) == [k \in 1..Len(log) |-> <<log[k].role, log[k].content>>]

SameConversation(i, j) == turns[i].conversation = turns[j].conversation

\* C14: within one conversation only the first turn can call
\* createChatSession, the first turn of a conversation begun as a new chat
\* does call it, every later turn keeps the session id of the first, and no
\* call issued while handling a turn is a deletion.
C14_CreateOnce ==
    /\ \A i, j \in 1..Len(turns) :
          (i < j /\ SameConversation(i, j))
          => ~turns[j].created /\ turns[j].session_id = turns[i].session_id
    /\ \A i \in 1..Len(turns) :
          (turns[i].conversation = 0 /\ \A k \in 1..(i - 1) : ~SameConversation(k, i))
          => turns[i].created
    /\ \A i \in 1..Len(turns) :
          turns[i].created
          => \A c \in net : (c.op = "create" /\ c.session_id = turns[i].session_id)
                             => c.turn = i
    /\ \A c \in net : c.op \in {"create", "append"}

\* a second turn of a conversation whose first turn created the session
C14_Witness ==
    /\ Len(turns) = 2
    /\ SameConversation(1, 2)
    /\ turns[1].created
    /\ turns[2].status = "done"
    /\ baseUrl # ""

\* a createChatSession or addChatToSession call is answered with an error
StoreCallFails == storeFailures' > storeFailures /\ net' # net

\* C15: the failure of a create or an append changes neither the transcript
\* nor any turn, and a sole completed turn shows the same transcript (the
\* prompt, then the full answer) whether or not its store calls were sent,
\* answered or failed.
C15_PersistenceFailureInvisible ==
    /\ [][StoreCallFails => (messages' = messages /\ turns' = turns)]_vars
    /\ []((/\ Len(turns) = 1
           /\ turns[1].status = "done"
           /\ turns[1].fullResponse # <<>>
           /\ navigations = 0)
          => messages = getInitialMessages
                        \o <<Message("user-john-due", turns[1].value),
                             Message("gen-ai", turns[1].fullResponse)>>)

\* a store call of the turn failed, the turn completed and shows its answer
C15_Witness ==
    /\ Len(turns) = 1
    /\ turns[1].status = "done"
    /\ navigations = 0
    /\ storeFailures = 1
    /\ net = {}
    /\ Len(storeLog[turns[1].session_id]) < 2
    /\ messages[Len(messages)] = Message("gen-ai", HelloText \o WorldText)

\* the state of the page an application can observe: its React state and the
\* entries of localStorage
PageState == <<messages, sessionId, lsSessionId, urlSession, logResponse>>

\* C16 (as claimed): the failure of a create or an append leaves a signal in
\* the state of the application, so the state after the failure differs from
\* the state before it.
C16_DegradedSignal ==
    [][StoreCallFails => PageState' # PageState]_vars

\* the session ids under which messages of turn i were sent to the store
StoredUnder(i) ==
    {c.session_id : c \in {d \in net : d.op = "append" /\ d.turn = i}}
    \cup {sid \in SessionIds : \E k \in 1..Len(storeLog[sid]) :
                                  storeLog[sid][k].turn = i}

\* C18: every request of a turn, the first and the retry, carries the session
\* id under which the turn's messages are appended to the store; the id is not
\* empty, and the turns of one conversation carry the same id.
C18_SessionIdPropagated ==
    /\ \A i \in 1..Len(turns) :
          \A k \in 1..Len(turns[i].requests) :
              /\ turns[i].requests[k].sessionId # ""
              /\ \A sid \in StoredUnder(i) : turns[i].requests[k].sessionId = sid
    /\ \A i, j \in 1..Len(turns) :
          SameConversation(i, j)
          => turns[i].requests[1].sessionId = turns[j].requests[1].sessionId

\* a second turn of a conversation, retried once, completed and stored
C18_Witness ==
    /\ Len(turns) = 2
    /\ SameConversation(1, 2)
    /\ Len(turns[2].requests) = 2
    /\ turns[2].status = "done"
    /\ \E sid \in SessionIds :
          /\ PlacesOf(storeLog[sid], "user", 2) # {}
          /\ PlacesOf(storeLog[sid], "assistant", 2) # {}

-----------------------------------------------------------------------------
(* chatServices.ts called by a caller that awaits the result, and the store  *)
(* answering at once                                                         *)

MaxStoreCalls == 3

\* what the store answers to a call: it handles it, or the call fails (the
\* store is unreachable or answers with an error status)
StoreAnswers == {"ok", "error"}

CreateResult_Rethrows(sid, answer) ==
    [op |-> "create", session_id |-> sid, answer |-> answer,
     threw |-> answer # "ok"]

\* createChatSession: response.data, or { session_id } from the catch clause
CreateResult(sid, answer) ==
    [op |-> "create", session_id |-> sid, answer |-> answer, threw |-> FALSE]

\* addChatToSession: response.data, or { success: false } from the catch clause
AppendResult(sid, answer) ==
    [op |-> "append", session_id |-> sid, answer |-> answer, threw |-> FALSE]

\* the store handles the call when the chat API is configured and reachable
Handled(c, answer) ==
    IF baseUrl # "" /\ answer = "ok" THEN StoreApply(c)
    ELSE UNCHANGED <<storeSessions, storeLog>>

StoreFrame ==
    UNCHANGED <<bytes, result, deletedSessions, ipc, retryCount, requests, attempts,
                error, accessToken, runtimeArn, body, pos, buffer, yielded,
                delivered, fullResponse, logData, logResponse, messages, sessionId,
                lsSessionId, urlSession, turns, baseUrl, net, loads, navigations,
                storeFailures>>

\* await createChatSession({ session_id: sid, ... })
AwaitCreate(sid, answer) ==
    /\ Len(callResults) < MaxStoreCalls
    /\ Handled([op |-> "create", session_id |-> sid, role |-> "",
                content |-> <<>>, turn |-> 0], answer)
    /\ callResults' = Append(callResults, CreateResult(sid, answer))
    /\ StoreFrame

\* await addChatToSession({ session_id: sid, role: "user", ... })
AwaitAppend(sid, answer) ==
    /\ Len(callResults) < MaxStoreCalls
    /\ Handled([op |-> "append", session_id |-> sid, role |-> "user",
                content |-> <<"p">>, turn |-> 0], answer)
    /\ callResults' = Append(callResults, AppendResult(sid, answer))
    /\ StoreFrame

StoreInit ==
    /\ callResults = <<>>
    /\ baseUrl \in {"", "api"}
    /\ storeSessions = {OldSession}
    /\ storeLog = [sid \in SessionIds |-> IF sid = OldSession THEN OldLog ELSE <<>>]
    /\ deletedSessions = {}
    /\ bytes = <<>>
    /\ result = <<>>
    /\ ipc = "init"
    /\ retryCount = 0
    /\ requests = <<>>
    /\ attempts = <<>>
    /\ error = ""
    /\ accessToken = "token"
    /\ runtimeArn = "arn"
    /\ body = <<>>
    /\ pos = 0
    /\ buffer = <<>>
    /\ yielded = <<>>
    /\ delivered = <<>>
    /\ fullResponse = <<>>
    /\ logData = <<>>
    /\ logResponse = <<>>
    /\ messages = <<>>
    /\ sessionId = ""
    /\ lsSessionId = ""
    /\ urlSession = ""
    /\ turns = <<>>
    /\ net = {}
    /\ loads = {}
    /\ navigations = 0
    /\ storeFailures = 0

StoreNext ==
    \/ \E sid \in SessionIds, answer \in StoreAnswers : AwaitCreate(sid, answer)
    \/ \E sid \in SessionIds, answer \in StoreAnswers : AwaitAppend(sid, answer)

SpecStore == StoreInit /\ [][StoreNext]_vars

\* the step is a createChatSession call for a session the store holds already
CreatesAgain ==
    /\ Len(callResults') = Len(callResults) + 1
    /\ callResults'[Len(callResults')].op = "create"
    /\ callResults'[Len(callResults')].session_id \in storeSessions

\* C21: a createSession for a session id the store already holds leaves the
\* sessions and their logs as they are, and no createChatSession call ends
\* with an error for its caller.
C21_CreateIdempotent ==
    /\ [][CreatesAgain => (storeSessions' = storeSessions /\ storeLog' = storeLog)]_vars
    /\ [](\A k \in 1..Len(callResults) :
             callResults[k].op = "create" => ~callResults[k].threw)

\* a session created, appended to and created again, the store answering
C21_Witness ==
    /\ baseUrl # ""
    /\ Len(callResults) = 3
    /\ callResults[1] = CreateResult("gen1", "ok")
    /\ callResults[2] = AppendResult("gen1", "ok")
    /\ callResults[3] = CreateResult("gen1", "ok")
    /\ Len(storeLog["gen1"]) = 1

\* the texts of the events that do not contain '[LOG]', joined in their order
NonLogContent(evs) ==
    LET kept == SelectSeq(evs, LAMBDA e : ~Includes(e.val, LogMarker))
    IN  Concat([k \in 1..Len(kept) |-> kept[k].val])

\* the contents of the assistant messages of turn i on their way to the store
\* or in a log
AssistantContents(i) ==
    {c.content : c \in {d \in net : d.role = "assistant" /\ d.turn = i}}
    \cup UNION {{storeLog[sid][k].content :
                    k \in PlacesOf(storeLog[sid], "assistant", i)} :
                   sid \in SessionIds}

\* C23: the step that completes a turn sends one assistant message, whose
\* content is the texts of the events without '[LOG]' joined in their order;
\* a completed turn never has a second assistant message or another content,
\* and the delivery of an event with '[LOG]' leaves the transcript as it is.
C23_AssembledContent ==
    /\ [][\A i \in 1..Len(turns) :
             (turns[i].status = "inflight" /\ turns'[i].status = "done"
              /\ baseUrl # "")
             => \E c \in net' \ net :
                   /\ net' = net \cup {c}
                   /\ c.op = "append" /\ c.role = "assistant" /\ c.turn = i
                   /\ c.content = NonLogContent(turns[i].events)]_vars
    /\ [][\A i \in 1..Len(turns) :
             (/\ turns[i].status = "inflight"
              /\ turns[i].stream # <<>>
              /\ turns'[i].stream = Tail(turns[i].stream)
              /\ Includes(Head(turns[i].stream).val, LogMarker))
             => /\ messages' = messages
                /\ turns'[i].fullResponse = turns[i].fullResponse]_vars
    /\ [](\A i \in 1..Len(turns) :
             turns[i].status = "done"
             => /\ turns[i].fullResponse = NonLogContent(turns[i].events)
                /\ Cardinality(AssistantStored(i)) <= 1
                /\ AssistantContents(i) \subseteq {NonLogContent(turns[i].events)})

\* a turn whose stream held a log event and a content event has completed
\* and its assistant message is in the log
C23_Witness ==
    \E i \in 1..Len(turns) :
        /\ turns[i].status = "done"
        /\ turns[i].events = WholeEvents(QuotedLog)
        /\ turns[i].fullResponse = <<"h", "i">>
        /\ \E k \in 1..Len(storeLog[turns[i].session_id]) :
              storeLog[turns[i].session_id][k] =
                  [role |-> "assistant", content |-> <<"h", "i">>, turn |-> i]

\* C25: a content increment of a turn in flight leaves the length of the
\* transcript and every entry but the one at the turn's botMessageIndex as
\* they are.
C25_OnlySlotOverwritten ==
    [][\A i \in 1..Len(turns) :
          (/\ turns[i].status = "inflight"
           /\ turns'[i].fullResponse # turns[i].fullResponse)
          => /\ Len(messages') = Len(messages)
             /\ \A k \in 1..Len(messages) :
                   k # turns[i].botMessageIndex + 1 => messages'[k] = messages[k]]_vars

\* a second increment has been written under the user message of the turn
C25_Witness ==
    \E i \in 1..Len(turns) :
        /\ turns[i].status = "inflight"
        /\ turns[i].fullResponse = HelloText \o WorldText
        /\ Len(messages) = turns[i].botMessageIndex + 1
        /\ SlotOf(messages, i) = Message("gen-ai", HelloText \o WorldText)
        /\ messages[turns[i].botMessageIndex] = Message("user-john-due", turns[i].value)

\* the contents of the user messages of turn i on their way to the store or
\* in a log
UserContents(i) ==
    {c.content : c \in {d \in net : d.role = "user" /\ d.turn = i}}
    \cup UNION {{storeLog[sid][k].content : k \in PlacesOf(storeLog[sid], "user", i)} :
                   sid \in SessionIds}

C27_DeletedSessionTerminated ==
    [][Len(turns') = Len(turns) + 1
       => LET t == turns'[Len(turns')]
          IN  /\ t.session_id \notin deletedSessions
              /\ \A c \in net' \ net : c.session_id \notin deletedSessions
              /\ \A k \in 1..Len(t.requests) :
                    t.requests[k].sessionId \notin deletedSessions]_vars

\* C28 (as claimed): while the createSession request of a first turn has not
\* reached the store, the store has not received the append of that turn's
\* user message.
C28_CreateBeforeAppend ==
    \A c \in net :
        c.op = "create" => PlacesOf(storeLog[c.session_id], "user", c.turn) = {}

\* C29 (as claimed): once a turn has completed, with no navigation since its
\* submission, its slot holds the content sent to the store as the assistant
\* message and not the loading placeholder.
C29_SlotShowsPersisted ==
    \A i \in 1..Len(turns) :
        (/\ turns[i].status = "done"
         /\ turns[i].conversation = navigations
         /\ HasSlot(messages, i))
        => /\ SlotOf(messages, i) # getLoadingMessage
           /\ SlotOf(messages, i).content = turns[i].fullResponse

=============================================================================
